---- MODULE Spec2Model ----
(***************************************************************************)
(* Game Night Hub (src/script.js): the table of rounds, the per-round      *)
(* countdown timers with their setInterval callbacks, the global timer     *)
(* display, the progress bar and the localStorage snapshot.                *)
(*                                                                         *)
(* The DOM table is the round store: a round is a <tr class="game-row">    *)
(* and the model keeps, per row, what the script reads and writes there    *)
(* (data-row-id, the two number inputs, the checkbox, the timer display's  *)
(* text and class list).  Game name, icon, prompt and resource markup are  *)
(* carried verbatim by every handler and are represented by the row id.    *)
(***************************************************************************)
EXTENDS Integers, Sequences, FiniteSets, TLC

\* ------------------------------------------------------------------------
\* Bounds of the model
\* ------------------------------------------------------------------------
NumDefaultRounds == 2   \* rows of the static page (stand-in for index.html)
MaxRows == 2            \* addNewRound is explored while the table has fewer rows
MaxRowId == 3           \* addNewRound is explored while nextRowId <= MaxRowId
MaxSeconds == 2         \* longest countdown the explored inputs configure

\* ------------------------------------------------------------------------
\* Program constants
\* ------------------------------------------------------------------------
DangerMax == 10         \* remainingSeconds <= 10 : danger
WarningMax == 30        \* remainingSeconds <= 30 : warning
SecondsPerMinute == 60

\* ------------------------------------------------------------------------
\* Strings of the number inputs: sequences of one-character strings
\* ------------------------------------------------------------------------
Digits == <<"0", "1", "2", "3", "4", "5", "6", "7", "8", "9">>

IsDigit(c) == \E i \in 1..10 : Digits[i] = c

DigitVal(c) == (CHOOSE i \in 1..10 : Digits[i] = c) - 1

RECURSIVE DigitPrefixLen(_, _)
\* number of leading digits of str from position i on
DigitPrefixLen(str, i) ==
    IF i > Len(str) \/ ~IsDigit(str[i]) THEN 0
    ELSE 1 + DigitPrefixLen(str, i + 1)

RECURSIVE DigitsValue(_, _, _)
\* value of the n digits of str that start at position i
DigitsValue(str, i, n) ==
    IF n = 0 THEN 0
    ELSE DigitsValue(str, i, n - 1) * 10 + DigitVal(str[i + n - 1])

\* parseInt(str): optional sign, then the longest run of digits; NaN when
\* there is no digit.  The result is [nan, val].
ParseInt(str) ==
    LET signed == Len(str) > 0 /\ str[1] \in {"-", "+"}
        start  == IF signed THEN 2 ELSE 1
        n      == DigitPrefixLen(str, start)
        mag    == DigitsValue(str, start, n)
    IN  IF n = 0 THEN [nan |-> TRUE, val |-> 0]
        ELSE [nan |-> FALSE,
              val |-> IF signed /\ str[1] = "-" THEN 0 - mag ELSE mag]

\* parseInt(x) || 0 : NaN and 0 are falsy
OrZero(p) == IF p.nan THEN 0 ELSE p.val

RECURSIVE NatToStr(_)
NatToStr(n) ==
    IF n < 10 THEN <<Digits[n + 1]>>
    ELSE NatToStr(n \div 10) \o <<Digits[(n % 10) + 1]>>

\* `${n}` for an integer n
NumToStr(n) == IF n < 0 THEN <<"-">> \o NatToStr(0 - n) ELSE NatToStr(n)

\* JavaScript's % and Math.floor(a / b) for b > 0
JsRem(a, b) == IF a >= 0 THEN a % b ELSE 0 - ((0 - a) % b)

FloorDiv(a, b) == a \div b

\* ------------------------------------------------------------------------
\* State
\* ------------------------------------------------------------------------
VARIABLES
    rows,           \* the <tr class="game-row"> elements of #tableBody, in order
    timers,         \* the timers object: row id -> {intervalId, remainingSeconds, isRunning}
    intervals,      \* pending setInterval callbacks: {[h |-> handle, row |-> rowId]}
    nextRowId,      \* the id counter
    storage,        \* the localStorage slot 'gameNightRounds'
    globalDisplay,  \* #activeTimerDisplay
    progress,       \* #progressFill / #progressText
    out,            \* what the last handler emitted (dialogs, sound, celebration, exception)
    everLive,       \* history: ids of the rounds that have been live in this page session
    countdown       \* history: per round, the duration D its timer was initialised from
                    \* and the number k of ticks fired since

vars == <<rows, timers, intervals, nextRowId, storage, globalDisplay,
          progress, out, everLive, countdown>>

\* The program's state as one record, so that handlers compose as the
\* functions do.  The two history variables are kept by the actions.
Here ==
    [rows |-> rows, timers |-> timers, intervals |-> intervals,
     nextRowId |-> nextRowId, storage |-> storage,
     globalDisplay |-> globalDisplay, progress |-> progress, out |-> out]

Becomes(s) ==
    /\ rows' = s.rows
    /\ timers' = s.timers
    /\ intervals' = s.intervals
    /\ nextRowId' = s.nextRowId
    /\ storage' = s.storage
    /\ globalDisplay' = s.globalDisplay
    /\ progress' = s.progress
    /\ out' = s.out

\* ------------------------------------------------------------------------
\* Small helpers over the row list and the timers object
\* ------------------------------------------------------------------------
NoTimers == [i \in {} |-> 0]

Put(f, k, v) == [x \in (DOMAIN f) \cup {k} |-> IF x = k THEN v ELSE f[x]]

Drop(f, k) == [x \in (DOMAIN f) \ {k} |-> f[x]]

RowIds(rs) == {rs[i].id : i \in 1..Len(rs)}

\* document.querySelector(`tr[data-row-id="${rowId}"]`): position of the
\* first matching row, 0 when there is none
RowIndex(rs, rowId) ==
    IF rowId \in RowIds(rs)
    THEN CHOOSE i \in 1..Len(rs) :
            /\ rs[i].id = rowId
            /\ \A j \in 1..(i - 1) : rs[j].id # rowId
    ELSE 0

RowOf(rs, rowId) == rs[RowIndex(rs, rowId)]

RemoveAt(rs, i) == [j \in 1..(Len(rs) - 1) |-> IF j < i THEN rs[j] ELSE rs[j + 1]]

Swap(rs, i, j) ==
    [x \in 1..Len(rs) |-> IF x = i THEN rs[j] ELSE IF x = j THEN rs[i] ELSE rs[x]]

\* text of a timer display
ClockText(seconds) ==
    [label |-> "clock", mm |-> FloorDiv(seconds, SecondsPerMinute),
     ss |-> JsRem(seconds, SecondsPerMinute)]

LabelText(l) == [label |-> l, mm |-> 0, ss |-> 0]

\* loaded: what loadRoundsFromStorage returned, when the handler was the page load
NoOut == [celebrations |-> 0, sounds |-> 0, raised |-> FALSE, loaded |-> "n/a"]

\* a row as the page markup or the row templates create it
NewRow(id, minStr, secStr, checked) ==
    [id |-> id, min |-> minStr, sec |-> secStr, checked |-> checked,
     cls |-> {}, text |-> ClockText(0)]

\* the rows of the static page, before any script has run
DefaultRows == [i \in 1..NumDefaultRounds |-> NewRow(i, <<"0">>, NatToStr(MaxSeconds), FALSE)]

\* "No active timer", as updateGlobalTimerDisplay writes it
NoActiveTimer == [kind |-> "none", id |-> 0, mm |-> 0, ss |-> 0, color |-> "blue"]

\* the static content of #activeTimerDisplay
InitialGlobalDisplay == NoActiveTimer

\* the tier a timer display shows for its class list (the stylesheet's rules
\* for .finished, .danger, .warning and .running, the later overriding)
ShownTier(cls) ==
    IF "finished" \in cls THEN "expired"
    ELSE IF "danger" \in cls THEN "danger"
    ELSE IF "warning" \in cls THEN "warning"
    ELSE "normal"

\* ------------------------------------------------------------------------
\* Persistence: the snapshot written to the slot
\* ------------------------------------------------------------------------
\* the object pushed for one row, with the seconds stored as the minutes too
RoundOfMixesInputs(row) ==
    [null |-> FALSE, id |-> row.id,
     timerMin |-> OrZero(ParseInt(row.sec)),
     timerSec |-> OrZero(ParseInt(row.sec)),
     isCompleted |-> row.checked]

\* the object pushed for one row, taking the time shown by the row's timer
\* display instead of the time configured in its inputs
RoundOfSavesDisplay(row) ==
    [null |-> FALSE, id |-> row.id,
     timerMin |-> row.text.mm,
     timerSec |-> row.text.ss,
     isCompleted |-> row.checked]

\* the object pushed for one row (saveRoundsToStorage, rounds.push)
RoundOf(row) ==
    [null |-> FALSE, id |-> row.id,
     timerMin |-> OrZero(ParseInt(row.min)),
     timerSec |-> OrZero(ParseInt(row.sec)),
     isCompleted |-> row.checked]

NullEntry == [null |-> TRUE]

Slot(kind, items) == [kind |-> kind, items |-> items]

\* Kinds of slot content: "absent", "garbage" (not parsable), "object"
\* (parsable, no array) and "array" are read and overwritten normally;
\* "denied" is storage that throws on every access; "full" holds an array
\* that can be read while setItem throws (quota exceeded).
Readable(slot) == slot.kind \in {"array", "full"}

Writable(slot) == slot.kind \notin {"denied", "full"}

\* saveRoundsToStorage() without its try/catch around setItem
SaveRoundsToStorageUncaught(s) ==
    IF ~Writable(s.storage) THEN [s EXCEPT !.out.raised = TRUE]
    ELSE [s EXCEPT !.storage =
            Slot("array", [i \in 1..Len(s.rows) |-> RoundOf(s.rows[i])])]

\* saveRoundsToStorage(): setItem overwrites the slot; when setItem throws
\* the catch leaves everything as it was
SaveRoundsToStorage(s) ==
    IF ~Writable(s.storage) THEN s
    ELSE [s EXCEPT !.storage =
            Slot("array", [i \in 1..Len(s.rows) |-> RoundOf(s.rows[i])])]

\* ------------------------------------------------------------------------
\* Global timer display
\* ------------------------------------------------------------------------
RECURSIVE SortedIds(_)
\* Object.entries(timers): integer keys in ascending order
SortedIds(S) ==
    IF S = {} THEN <<>>
    ELSE LET m == CHOOSE x \in S : \A y \in S : x <= y
         IN  <<m>> \o SortedIds(S \ {m})

RECURSIVE KeepRunning(_, _)
\* .filter(isRunning && remainingSeconds > 0).map({id, seconds})
KeepRunning(ts, ids) ==
    IF ids = <<>> THEN <<>>
    ELSE LET id == Head(ids)
             rest == KeepRunning(ts, Tail(ids))
         IN  IF ts[id].isRunning /\ ts[id].remainingSeconds > 0
             THEN <<[id |-> id, seconds |-> ts[id].remainingSeconds]>> \o rest
             ELSE rest

RECURSIVE ReduceMin(_, _, _)
\* runningTimers.reduce((min, t) => t.seconds < min.seconds ? t : min)
ReduceMin(list, i, min) ==
    IF i > Len(list) THEN min
    ELSE ReduceMin(list, i + 1,
                   IF list[i].seconds < min.seconds THEN list[i] ELSE min)

RunningTimers(ts) == KeepRunning(ts, SortedIds(DOMAIN ts))

Urgent(ts) == LET l == RunningTimers(ts) IN ReduceMin(l, 2, l[1])

GlobalColor(seconds) ==
    IF seconds <= DangerMax THEN "red"
    ELSE IF seconds <= WarningMax THEN "orange" ELSE "blue"

UpdateGlobalTimerDisplay(s) ==
    IF RunningTimers(s.timers) = <<>>
    THEN [s EXCEPT !.globalDisplay = NoActiveTimer]
    ELSE LET u == Urgent(s.timers)
         IN  IF RowIndex(s.rows, u.id) = 0 THEN s
             ELSE [s EXCEPT !.globalDisplay =
                     [kind |-> "timer", id |-> u.id,
                      mm |-> FloorDiv(u.seconds, SecondsPerMinute),
                      ss |-> JsRem(u.seconds, SecondsPerMinute),
                      color |-> GlobalColor(u.seconds)]]

\* ------------------------------------------------------------------------
\* Progress bar
\* ------------------------------------------------------------------------
CheckedCount(rs) == Cardinality({i \in 1..Len(rs) : rs[i].checked})

UpdateProgress(s) ==
    LET checkedCount == CheckedCount(s.rows)
        totalCount   == Len(s.rows)
        allDone      == checkedCount = totalCount /\ totalCount > 0
    IN  [s EXCEPT
           !.progress = [checked |-> checkedCount, total |-> totalCount,
                         num |-> IF totalCount > 0 THEN checkedCount * 100 ELSE 0,
                         den |-> IF totalCount > 0 THEN totalCount ELSE 1,
                         allDone |-> allDone],
           !.out.celebrations = IF allDone THEN @ + 1 ELSE @]

\* ------------------------------------------------------------------------
\* Timer engine
\* ------------------------------------------------------------------------
\* getTimerSeconds(row)
GetTimerSeconds(row) ==
    (OrZero(ParseInt(row.min)) * SecondsPerMinute) + OrZero(ParseInt(row.sec))

\* setInterval returns a handle that no pending callback and no timer holds
NewHandle(s) ==
    LET used == {iv.h : iv \in s.intervals}
                  \cup {s.timers[id].intervalId : id \in DOMAIN s.timers}
    IN  CHOOSE h \in 1..(Cardinality(used) + 1) :
            /\ h \notin used
            /\ \A g \in 1..(h - 1) : g \in used

\* clearInterval(h)
ClearInterval(ivs, h) == {iv \in ivs : iv.h # h}

\* updateTimerDisplay(rowId)
UpdateTimerDisplay(s, rowId) ==
    LET i == RowIndex(s.rows, rowId)
    IN  IF i = 0 THEN s
        ELSE [s EXCEPT !.rows[i].text = ClockText(s.timers[rowId].remainingSeconds)]

\* timerFinished(rowId) without the assignment isRunning = false
TimerFinishedStillRunning(s, rowId) ==
    LET i == RowIndex(s.rows, rowId)
        t == s.timers[rowId]
    IN  IF i = 0 THEN s
        ELSE UpdateGlobalTimerDisplay(
               [s EXCEPT
                  !.intervals = IF t.intervalId # 0
                                THEN ClearInterval(@, t.intervalId) ELSE @,
                  !.timers[rowId] = [intervalId |-> 0, remainingSeconds |-> 0,
                                     isRunning |-> t.isRunning],
                  !.rows[i].text = LabelText("TIME!"),
                  !.rows[i].cls = (@ \ {"running", "warning", "danger"}) \cup {"finished"},
                  !.out.sounds = @ + 1])

\* timerFinished(rowId)
TimerFinished(s, rowId) ==
    LET i == RowIndex(s.rows, rowId)
        t == s.timers[rowId]
    IN  IF i = 0 THEN s
        ELSE UpdateGlobalTimerDisplay(
               [s EXCEPT
                  !.intervals = IF t.intervalId # 0
                                THEN ClearInterval(@, t.intervalId) ELSE @,
                  !.timers[rowId] = [intervalId |-> 0, remainingSeconds |-> 0,
                                     isRunning |-> FALSE],
                  !.rows[i].text = LabelText("TIME!"),
                  !.rows[i].cls = (@ \ {"running", "warning", "danger"}) \cup {"finished"},
                  !.out.sounds = @ + 1])

\* startTimer() refusing to start only below zero (< instead of <=)
StartTimerStartsAtZero(s, rowId) ==
    LET i == RowIndex(s.rows, rowId)
    IN  IF i = 0 THEN s
        ELSE IF rowId \in DOMAIN s.timers /\ s.timers[rowId].isRunning THEN s
        ELSE
          LET init == rowId \notin DOMAIN s.timers
                         \/ s.timers[rowId].remainingSeconds = 0
              totalSeconds == GetTimerSeconds(s.rows[i])
              s1 == IF init
                    THEN [s EXCEPT
                            !.timers = Put(@, rowId,
                                 [intervalId |-> 0,
                                  remainingSeconds |-> totalSeconds,
                                  isRunning |-> FALSE])]
                    ELSE s
          IN  IF s1.timers[rowId].remainingSeconds < 0
              THEN [s1 EXCEPT !.rows[i].text = LabelText("Set time!")]
              ELSE
                LET s2 == [s1 EXCEPT
                             !.rows[i].cls = (@ \cup {"running"}) \ {"finished"},
                             !.timers[rowId].isRunning = TRUE]
                    s3 == UpdateGlobalTimerDisplay(UpdateTimerDisplay(s2, rowId))
                    h  == NewHandle(s3)
                IN  [s3 EXCEPT
                       !.timers[rowId].intervalId = h,
                       !.intervals = @ \cup {[h |-> h, row |-> rowId]}]

\* startTimer() marking the timer running without the call of setInterval
StartTimerNoInterval(s, rowId) ==
    LET i == RowIndex(s.rows, rowId)
    IN  IF i = 0 THEN s
        ELSE IF rowId \in DOMAIN s.timers /\ s.timers[rowId].isRunning THEN s
        ELSE
          LET init == rowId \notin DOMAIN s.timers
                         \/ s.timers[rowId].remainingSeconds = 0
              totalSeconds == GetTimerSeconds(s.rows[i])
              s1 == IF init
                    THEN [s EXCEPT
                            !.timers = Put(@, rowId,
                                 [intervalId |-> 0,
                                  remainingSeconds |-> totalSeconds,
                                  isRunning |-> FALSE])]
                    ELSE s
          IN  IF s1.timers[rowId].remainingSeconds <= 0
              THEN [s1 EXCEPT !.rows[i].text = LabelText("Set time!")]
              ELSE
                LET s2 == [s1 EXCEPT
                             !.rows[i].cls = (@ \cup {"running"}) \ {"finished"},
                             !.timers[rowId].isRunning = TRUE]
                    s3 == UpdateGlobalTimerDisplay(UpdateTimerDisplay(s2, rowId))
                IN  s3

\* startTimer() without the check that the row exists: row.querySelector
\* on null throws for an id that has no row
StartTimerNoRowCheck(s, rowId) ==
    LET i == RowIndex(s.rows, rowId)
    IN  IF i = 0 THEN [s EXCEPT !.out.raised = TRUE]
        ELSE IF rowId \in DOMAIN s.timers /\ s.timers[rowId].isRunning THEN s
        ELSE
          LET init == rowId \notin DOMAIN s.timers
                         \/ s.timers[rowId].remainingSeconds = 0
              totalSeconds == GetTimerSeconds(s.rows[i])
              s1 == IF init
                    THEN [s EXCEPT
                            !.timers = Put(@, rowId,
                                 [intervalId |-> 0,
                                  remainingSeconds |-> totalSeconds,
                                  isRunning |-> FALSE])]
                    ELSE s
          IN  IF s1.timers[rowId].remainingSeconds <= 0
              THEN [s1 EXCEPT !.rows[i].text = LabelText("Set time!")]
              ELSE
                LET s2 == [s1 EXCEPT
                             !.rows[i].cls = (@ \cup {"running"}) \ {"finished"},
                             !.timers[rowId].isRunning = TRUE]
                    s3 == UpdateGlobalTimerDisplay(UpdateTimerDisplay(s2, rowId))
                    h  == NewHandle(s3)
                IN  [s3 EXCEPT
                       !.timers[rowId].intervalId = h,
                       !.intervals = @ \cup {[h |-> h, row |-> rowId]}]

\* startTimer(rowId) taking the duration from the inputs whenever the timer
\* is not running, also on a resume
StartTimerRestartsOnResume(s, rowId) ==
    LET i == RowIndex(s.rows, rowId)
    IN  IF i = 0 THEN s
        ELSE IF rowId \in DOMAIN s.timers /\ s.timers[rowId].isRunning THEN s
        ELSE
          LET totalSeconds == GetTimerSeconds(s.rows[i])
              s1 == [s EXCEPT
                       !.timers = Put(@, rowId,
                            [intervalId |-> 0,
                             remainingSeconds |-> totalSeconds,
                             isRunning |-> FALSE])]
          IN  IF s1.timers[rowId].remainingSeconds <= 0
              THEN [s1 EXCEPT !.rows[i].text = LabelText("Set time!")]
              ELSE
                LET s2 == [s1 EXCEPT
                             !.rows[i].cls = (@ \cup {"running"}) \ {"finished"},
                             !.timers[rowId].isRunning = TRUE]
                    s3 == UpdateGlobalTimerDisplay(UpdateTimerDisplay(s2, rowId))
                    h  == NewHandle(s3)
                IN  [s3 EXCEPT
                       !.timers[rowId].intervalId = h,
                       !.intervals = @ \cup {[h |-> h, row |-> rowId]}]

\* startTimer(rowId)
StartTimer(s, rowId) ==
    LET i == RowIndex(s.rows, rowId)
    IN  IF i = 0 THEN s
        ELSE IF rowId \in DOMAIN s.timers /\ s.timers[rowId].isRunning THEN s
        ELSE
          LET init == rowId \notin DOMAIN s.timers
                         \/ s.timers[rowId].remainingSeconds = 0
              totalSeconds == GetTimerSeconds(s.rows[i])
              s1 == IF init
                    THEN [s EXCEPT
                            !.timers = Put(@, rowId,
                                 [intervalId |-> 0,
                                  remainingSeconds |-> totalSeconds,
                                  isRunning |-> FALSE])]
                    ELSE s
          IN  IF s1.timers[rowId].remainingSeconds <= 0
              THEN [s1 EXCEPT !.rows[i].text = LabelText("Set time!")]
              ELSE
                LET s2 == [s1 EXCEPT
                             !.rows[i].cls = (@ \cup {"running"}) \ {"finished"},
                             !.timers[rowId].isRunning = TRUE]
                    s3 == UpdateGlobalTimerDisplay(UpdateTimerDisplay(s2, rowId))
                    h  == NewHandle(s3)
                IN  [s3 EXCEPT
                       !.timers[rowId].intervalId = h,
                       !.intervals = @ \cup {[h |-> h, row |-> rowId]}]

\* the tick callback calling timerFinished one second early
TickCallbackEarlyFinish(s, rowId) ==
    IF rowId \notin DOMAIN s.timers
    THEN [s EXCEPT !.out.raised = TRUE]      \* TypeError: timers[rowId] is undefined
    ELSE
      LET i  == RowIndex(s.rows, rowId)
          s1 == [s EXCEPT !.timers[rowId].remainingSeconds = @ - 1]
          s2 == UpdateTimerDisplay(s1, rowId)
          r  == s2.timers[rowId].remainingSeconds
          s3 == IF i = 0 THEN s2
                ELSE IF r <= DangerMax /\ r > 0
                THEN [s2 EXCEPT !.rows[i].cls = (@ \ {"running", "warning"}) \cup {"danger"}]
                ELSE IF r <= WarningMax /\ r > DangerMax
                THEN [s2 EXCEPT !.rows[i].cls = (@ \ {"running", "danger"}) \cup {"warning"}]
                ELSE s2
          s4 == IF r <= 1 THEN TimerFinished(s3, rowId) ELSE s3
      IN  UpdateGlobalTimerDisplay(s4)

\* the callback given to setInterval by startTimer(rowId)
TickCallback(s, rowId) ==
    IF rowId \notin DOMAIN s.timers
    THEN [s EXCEPT !.out.raised = TRUE]      \* TypeError: timers[rowId] is undefined
    ELSE
      LET i  == RowIndex(s.rows, rowId)
          s1 == [s EXCEPT !.timers[rowId].remainingSeconds = @ - 1]
          s2 == UpdateTimerDisplay(s1, rowId)
          r  == s2.timers[rowId].remainingSeconds
          s3 == IF i = 0 THEN s2
                ELSE IF r <= DangerMax /\ r > 0
                THEN [s2 EXCEPT !.rows[i].cls = (@ \ {"running", "warning"}) \cup {"danger"}]
                ELSE IF r <= WarningMax /\ r > DangerMax
                THEN [s2 EXCEPT !.rows[i].cls = (@ \ {"running", "danger"}) \cup {"warning"}]
                ELSE s2
          s4 == IF r <= 0 THEN TimerFinished(s3, rowId) ELSE s3
      IN  UpdateGlobalTimerDisplay(s4)

\* pauseTimer(rowId) without its clearInterval
PauseTimerKeepsInterval(s, rowId) ==
    LET i == RowIndex(s.rows, rowId)
    IN  IF rowId \notin DOMAIN s.timers THEN s
        ELSE IF i = 0 THEN s
        ELSE UpdateGlobalTimerDisplay(
               [s EXCEPT
                  !.timers[rowId].intervalId = 0,
                  !.timers[rowId].isRunning = FALSE,
                  !.rows[i].cls = @ \ {"running"}])

\* pauseTimer(rowId)
PauseTimer(s, rowId) ==
    LET i == RowIndex(s.rows, rowId)
    IN  IF rowId \notin DOMAIN s.timers THEN s
        ELSE IF i = 0 THEN s
        ELSE UpdateGlobalTimerDisplay(
               [s EXCEPT
                  !.intervals = IF s.timers[rowId].intervalId # 0
                                THEN ClearInterval(@, s.timers[rowId].intervalId)
                                ELSE @,
                  !.timers[rowId].intervalId = 0,
                  !.timers[rowId].isRunning = FALSE,
                  !.rows[i].cls = @ \ {"running"}])

\* resetTimer() stopping the countdown without putting it back to 0
ResetTimerKeepsRemaining(s, rowId) ==
    LET i == RowIndex(s.rows, rowId)
    IN  IF i = 0 THEN s
        ELSE UpdateGlobalTimerDisplay(
               [s EXCEPT
                  !.intervals = IF rowId \in DOMAIN s.timers
                                   /\ s.timers[rowId].intervalId # 0
                                THEN ClearInterval(@, s.timers[rowId].intervalId)
                                ELSE @,
                  !.timers = Put(@, rowId,
                                 [intervalId |-> 0,
                                  remainingSeconds |->
                                     IF rowId \in DOMAIN s.timers
                                     THEN s.timers[rowId].remainingSeconds ELSE 0,
                                  isRunning |-> FALSE]),
                  !.rows[i].text = ClockText(0),
                  !.rows[i].cls = @ \ {"running", "warning", "danger", "finished"}])

\* resetTimer(rowId) without its updateGlobalTimerDisplay()
ResetTimerNoRefresh(s, rowId) ==
    LET i == RowIndex(s.rows, rowId)
    IN  IF i = 0 THEN s
        ELSE [s EXCEPT
                !.intervals = IF rowId \in DOMAIN s.timers
                                 /\ s.timers[rowId].intervalId # 0
                              THEN ClearInterval(@, s.timers[rowId].intervalId)
                              ELSE @,
                !.timers = Put(@, rowId, [intervalId |-> 0, remainingSeconds |-> 0,
                                          isRunning |-> FALSE]),
                !.rows[i].text = ClockText(0),
                !.rows[i].cls = @ \ {"running", "warning", "danger", "finished"}]

\* resetTimer(rowId)
ResetTimer(s, rowId) ==
    LET i == RowIndex(s.rows, rowId)
    IN  IF i = 0 THEN s
        ELSE UpdateGlobalTimerDisplay(
               [s EXCEPT
                  !.intervals = IF rowId \in DOMAIN s.timers
                                   /\ s.timers[rowId].intervalId # 0
                                THEN ClearInterval(@, s.timers[rowId].intervalId)
                                ELSE @,
                  !.timers = Put(@, rowId, [intervalId |-> 0, remainingSeconds |-> 0,
                                            isRunning |-> FALSE]),
                  !.rows[i].text = ClockText(0),
                  !.rows[i].cls = @ \ {"running", "warning", "danger", "finished"}])

\* toggleDone() with the test of checkbox.checked inverted: it pauses the
\* timer when the box is unchecked
ToggleDonePausesOnUncheck(s, rowId) ==
    LET i == RowIndex(s.rows, rowId)
    IN  IF i = 0 THEN s
        ELSE LET s1 == [s EXCEPT !.rows[i].checked = ~@]
                 s2 == IF ~s1.rows[i].checked THEN PauseTimer(s1, rowId) ELSE s1
             IN  SaveRoundsToStorage(UpdateProgress(s2))

\* toggleDone() without the call of pauseTimer()
ToggleDoneNoPause(s, rowId) ==
    LET i == RowIndex(s.rows, rowId)
    IN  IF i = 0 THEN s
        ELSE SaveRoundsToStorage(UpdateProgress([s EXCEPT !.rows[i].checked = ~@]))

\* ------------------------------------------------------------------------
\* Checkboxes and round editor
\* ------------------------------------------------------------------------
\* toggleDone(rowId, checkbox), the checkbox being the one of the row: the
\* browser has flipped it when the change handler runs
ToggleDone(s, rowId) ==
    LET i == RowIndex(s.rows, rowId)
    IN  IF i = 0 THEN s
        ELSE LET s1 == [s EXCEPT !.rows[i].checked = ~@]
                 s2 == IF s1.rows[i].checked THEN PauseTimer(s1, rowId) ELSE s1
             IN  SaveRoundsToStorage(UpdateProgress(s2))

\* addNewRound() without the check of the prompt field
AddNewRoundNoPromptCheck(s, hasName, hasPrompt, minStr, secStr) ==
    LET timerMin == OrZero(ParseInt(minStr))
        timerSec == OrZero(ParseInt(secStr))
        rowId    == s.nextRowId
    IN  IF ~hasName THEN s
        ELSE SaveRoundsToStorage(UpdateProgress(
               [s EXCEPT !.nextRowId = @ + 1,
                         !.rows = Append(@, NewRow(rowId, NumToStr(timerMin),
                                                   NumToStr(timerSec), FALSE))]))

\* addNewRound() inserting the new row before the first one
AddNewRoundPrepends(s, hasName, hasPrompt, minStr, secStr) ==
    LET timerMin == OrZero(ParseInt(minStr))
        timerSec == OrZero(ParseInt(secStr))
        rowId    == s.nextRowId
    IN  IF ~hasName THEN s
        ELSE IF ~hasPrompt THEN s
        ELSE SaveRoundsToStorage(UpdateProgress(
               [s EXCEPT !.nextRowId = @ + 1,
                         !.rows = <<NewRow(rowId, NumToStr(timerMin),
                                           NumToStr(timerSec), FALSE)>> \o @]))

\* addNewRound(), the form holding a name (empty or not), a prompt (empty or
\* not) and the two timer inputs
AddNewRound(s, hasName, hasPrompt, minStr, secStr) ==
    LET timerMin == OrZero(ParseInt(minStr))
        timerSec == OrZero(ParseInt(secStr))
        rowId    == s.nextRowId
    IN  IF ~hasName THEN s             \* alert('Please enter a game name.')
        ELSE IF ~hasPrompt THEN s      \* alert('Please enter a round/prompt.')
        ELSE SaveRoundsToStorage(UpdateProgress(
               [s EXCEPT
                  !.nextRowId = @ + 1,
                  !.rows = Append(@, NewRow(rowId, NumToStr(timerMin),
                                            NumToStr(timerSec), FALSE))]))

\* deleteRow() stopping the interval but keeping the entry in timers
DeleteRowKeepsTimer(s, rowId, confirmed) ==
    IF ~confirmed THEN s
    ELSE LET s1 == IF rowId \in DOMAIN s.timers /\ s.timers[rowId].intervalId # 0
                   THEN [s EXCEPT
                           !.intervals = ClearInterval(@, s.timers[rowId].intervalId)]
                   ELSE s
             i  == RowIndex(s1.rows, rowId)
             s2 == IF i # 0 THEN [s1 EXCEPT !.rows = RemoveAt(@, i)] ELSE s1
         IN  SaveRoundsToStorage(UpdateGlobalTimerDisplay(UpdateProgress(s2)))

\* deleteRow() without its call of updateProgress()
DeleteRowNoProgress(s, rowId, confirmed) ==
    IF ~confirmed THEN s
    ELSE LET s1 == IF rowId \in DOMAIN s.timers
                   THEN [s EXCEPT
                           !.intervals = IF s.timers[rowId].intervalId # 0
                                         THEN ClearInterval(@, s.timers[rowId].intervalId)
                                         ELSE @,
                           !.timers = Drop(@, rowId)]
                   ELSE s
             i  == RowIndex(s1.rows, rowId)
             s2 == IF i # 0 THEN [s1 EXCEPT !.rows = RemoveAt(@, i)] ELSE s1
         IN  SaveRoundsToStorage(UpdateGlobalTimerDisplay(s2))

\* deleteRow(rowId), with the answer given to confirm()
DeleteRow(s, rowId, confirmed) ==
    IF ~confirmed THEN s
    ELSE
      LET s1 == IF rowId \in DOMAIN s.timers
                THEN [s EXCEPT
                        !.intervals = IF s.timers[rowId].intervalId # 0
                                      THEN ClearInterval(@, s.timers[rowId].intervalId)
                                      ELSE @,
                        !.timers = Drop(@, rowId)]
                ELSE s
          i  == RowIndex(s1.rows, rowId)
          s2 == IF i # 0 THEN [s1 EXCEPT !.rows = RemoveAt(@, i)] ELSE s1
      IN  SaveRoundsToStorage(UpdateGlobalTimerDisplay(UpdateProgress(s2)))

\* moveRowUp(rowId)
MoveRowUp(s, rowId) ==
    LET i == RowIndex(s.rows, rowId)
    IN  IF i = 0 THEN s
        ELSE IF i = 1 THEN s
        ELSE SaveRoundsToStorage([s EXCEPT !.rows = Swap(@, i - 1, i)])

\* moveRowDown(rowId) with the arguments of insertBefore exchanged
MoveRowDownStays(s, rowId) ==
    LET i == RowIndex(s.rows, rowId)
    IN  IF i = 0 THEN s
        ELSE IF i = Len(s.rows) THEN s
        ELSE SaveRoundsToStorage(s)

\* moveRowDown(rowId)
MoveRowDown(s, rowId) ==
    LET i == RowIndex(s.rows, rowId)
    IN  IF i = 0 THEN s
        ELSE IF i = Len(s.rows) THEN s
        ELSE SaveRoundsToStorage([s EXCEPT !.rows = Swap(@, i, i + 1)])

RECURSIVE ResetEachRow(_, _)
\* the forEach of resetAllRounds, from row i on
ResetEachRow(s, i) ==
    IF i > Len(s.rows) THEN s
    ELSE ResetEachRow([ResetTimer(s, s.rows[i].id) EXCEPT !.rows[i].checked = FALSE],
                      i + 1)

\* resetAllRounds() without its final saveRoundsToStorage()
ResetAllRoundsNoSave(s, confirmed) ==
    IF ~confirmed THEN s
    ELSE UpdateProgress(ResetEachRow(s, 1))

\* resetAllRounds(), with the answer given to confirm()
ResetAllRounds(s, confirmed) ==
    IF ~confirmed THEN s
    ELSE SaveRoundsToStorage(UpdateProgress(ResetEachRow(s, 1)))

\* clearSavedRounds(), with the answer given to confirm(); removeItem is
\* outside any try
ClearSavedRounds(s, confirmed) ==
    IF ~confirmed THEN s
    ELSE IF s.storage.kind = "denied" THEN [s EXCEPT !.out.raised = TRUE]
    ELSE [s EXCEPT !.storage = Slot("absent", <<>>)]

\* the user types into a row's minutes or seconds input (no handler runs)
EditTimerInput(s, rowId, field, str) ==
    LET i == RowIndex(s.rows, rowId)
    IN  IF i = 0 THEN s
        ELSE IF field = "min" THEN [s EXCEPT !.rows[i].min = str]
        ELSE [s EXCEPT !.rows[i].sec = str]

\* ------------------------------------------------------------------------
\* Page load
\* ------------------------------------------------------------------------
InitialNextRowId == 6

RECURSIVE LoadEach(_, _, _, _)
\* rounds.forEach of loadRoundsFromStorage from entry i on; reading round.id
\* of a null entry throws and leaves the rows inserted so far
LoadEach(items, i, acc, maxId) ==
    IF i > Len(items) THEN [rows |-> acc, maxId |-> maxId, threw |-> FALSE]
    ELSE IF items[i].null THEN [rows |-> acc, maxId |-> maxId, threw |-> TRUE]
    ELSE LET round == items[i]
         IN  LoadEach(items, i + 1,
                      Append(acc, NewRow(round.id, NumToStr(round.timerMin),
                                         NumToStr(round.timerSec), round.isCompleted)),
                      IF round.id > maxId THEN round.id ELSE maxId)

\* loadRoundsFromStorage() restoring the counter to maxId instead of maxId + 1
LoadRoundsFromStorageNextIsMax(s) ==
    IF ~Readable(s.storage) THEN [st |-> s, ok |-> FALSE]
    ELSE IF Len(s.storage.items) = 0 THEN [st |-> s, ok |-> FALSE]
    ELSE LET l == LoadEach(s.storage.items, 1, <<>>, 0)
         IN  IF l.threw
             THEN [st |-> [s EXCEPT !.rows = l.rows], ok |-> FALSE]
             ELSE [st |-> [s EXCEPT !.rows = l.rows, !.nextRowId = l.maxId],
                   ok |-> TRUE]

\* loadRoundsFromStorage(): the state it leaves and the value it returns
LoadRoundsFromStorage(s) ==
    IF ~Readable(s.storage) THEN [st |-> s, ok |-> FALSE]
    ELSE IF Len(s.storage.items) = 0 THEN [st |-> s, ok |-> FALSE]
    ELSE LET l == LoadEach(s.storage.items, 1, <<>>, 0)
         IN  IF l.threw
             THEN [st |-> [s EXCEPT !.rows = l.rows], ok |-> FALSE]
             ELSE [st |-> [s EXCEPT !.rows = l.rows, !.nextRowId = l.maxId + 1],
                   ok |-> TRUE]

RECURSIVE MaxRowIdOf(_, _, _)
\* the forEach of the DOMContentLoaded handler
MaxRowIdOf(rs, i, maxId) ==
    IF i > Len(rs) THEN maxId
    ELSE MaxRowIdOf(rs, i + 1, IF rs[i].id > maxId THEN rs[i].id ELSE maxId)

\* a fresh page over the slot, then the DOMContentLoaded handler
PageLoad(slot) ==
    LET fresh == [rows |-> DefaultRows, timers |-> NoTimers, intervals |-> {},
                  nextRowId |-> InitialNextRowId, storage |-> slot,
                  globalDisplay |-> InitialGlobalDisplay,
                  progress |-> [checked |-> 0, total |-> 0, num |-> 0, den |-> 1,
                                allDone |-> FALSE],
                  out |-> NoOut]
        l  == LoadRoundsFromStorage(fresh)
        s1 == IF l.ok THEN l.st
              ELSE [l.st EXCEPT !.nextRowId = MaxRowIdOf(l.st.rows, 1, 0) + 1]
        s2 == UpdateProgress(s1)
    IN  [s2 EXCEPT !.out.loaded = IF l.ok THEN "yes" ELSE "no"]

\* ------------------------------------------------------------------------
\* Specification
\* ------------------------------------------------------------------------
StoredRound(id, done) ==
    [null |-> FALSE, id |-> id, timerMin |-> 0, timerSec |-> MaxSeconds,
     isCompleted |-> done]

\* contents the slot can hold when the page is opened
InitialSlots ==
    { Slot("absent", <<>>),       \* nothing stored
      Slot("denied", <<>>),       \* storage not accessible
      Slot("garbage", <<>>),      \* not parsable
      Slot("object", <<>>),       \* parsable, not an array
      Slot("array", <<>>),
      Slot("array", <<NullEntry>>),
      Slot("array", <<StoredRound(MaxRowId, FALSE), NullEntry>>),
      Slot("array", <<StoredRound(2, TRUE), StoredRound(1, FALSE)>>) }

AllIds == 1..MaxRowId

\* what the explored sessions type into the minutes and the seconds inputs
FormStrings == {<<>>, NatToStr(MaxSeconds)}         \* the add form's inputs
TypedStrings == {<<"0">>, NatToStr(MaxSeconds)}     \* a row's inputs

Begin == [Here EXCEPT !.out = NoOut]

\* startTimer(id) takes the duration from the inputs: the row exists and its
\* timer is absent, or stopped at zero
Initialises(id) ==
    /\ id \in RowIds(rows)
    /\ \/ id \notin DOMAIN timers
       \/ /\ ~timers[id].isRunning
          /\ timers[id].remainingSeconds = 0

StartedFrom(id) ==
    LET D == GetTimerSeconds(RowOf(rows, id))
    IN  IF D > 0 THEN Put(countdown, id, [D |-> D, k |-> 0]) ELSE Drop(countdown, id)

InitFrom(slot) ==
    LET s == PageLoad(slot)
    IN  /\ rows = s.rows
        /\ timers = s.timers
        /\ intervals = s.intervals
        /\ nextRowId = s.nextRowId
        /\ storage = s.storage
        /\ globalDisplay = s.globalDisplay
        /\ progress = s.progress
        /\ out = s.out
        /\ everLive = RowIds(s.rows)
        /\ countdown = NoTimers

Init == \E slot \in InitialSlots : InitFrom(slot)

Reload ==
    /\ Becomes(PageLoad(storage))
    /\ everLive' = RowIds(rows')
    /\ countdown' = NoTimers

Start == \E id \in AllIds :
    /\ Becomes(StartTimer(Begin, id))
    /\ countdown' = IF Initialises(id) THEN StartedFrom(id) ELSE countdown
    /\ UNCHANGED everLive

Tick == \E iv \in intervals :
    /\ Becomes(TickCallback(Begin, iv.row))
    /\ countdown' = IF iv.row \in DOMAIN countdown
                    THEN [countdown EXCEPT ![iv.row].k = @ + 1] ELSE countdown
    /\ UNCHANGED everLive

Pause == \E id \in AllIds :
    /\ Becomes(PauseTimer(Begin, id))
    /\ UNCHANGED <<everLive, countdown>>

Reset == \E id \in AllIds :
    /\ Becomes(ResetTimer(Begin, id))
    /\ countdown' = Drop(countdown, id)
    /\ UNCHANGED everLive

Toggle == \E id \in AllIds :
    /\ Becomes(ToggleDone(Begin, id))
    /\ UNCHANGED <<everLive, countdown>>

Add == \E hasName, hasPrompt \in BOOLEAN :
       \E m \in {<<>>, <<"0">>}, sc \in FormStrings :
          /\ Len(rows) < MaxRows
          /\ nextRowId <= MaxRowId
          /\ Becomes(AddNewRound(Begin, hasName, hasPrompt, m, sc))
          /\ everLive' = everLive \cup RowIds(rows')
          /\ UNCHANGED countdown

Delete == \E id \in AllIds, confirmed \in BOOLEAN :
    /\ Becomes(DeleteRow(Begin, id, confirmed))
    /\ countdown' = IF confirmed THEN Drop(countdown, id) ELSE countdown
    /\ UNCHANGED everLive

MoveUp == \E id \in AllIds :
    /\ Becomes(MoveRowUp(Begin, id))
    /\ UNCHANGED <<everLive, countdown>>

MoveDown == \E id \in AllIds :
    /\ Becomes(MoveRowDown(Begin, id))
    /\ UNCHANGED <<everLive, countdown>>

ResetAll == \E confirmed \in BOOLEAN :
    /\ Becomes(ResetAllRounds(Begin, confirmed))
    /\ countdown' = IF confirmed THEN NoTimers ELSE countdown
    /\ UNCHANGED everLive

ClearSaved == \E confirmed \in BOOLEAN :
    /\ Becomes(ClearSavedRounds(Begin, confirmed))
    /\ UNCHANGED <<everLive, countdown>>

Edit == \E id \in AllIds, field \in {"min", "sec"} :
        \E str \in (IF field = "min" THEN {<<"0">>} ELSE TypedStrings) :
           /\ Becomes(EditTimerInput(Begin, id, field, str))
           /\ UNCHANGED <<everLive, countdown>>

Next ==
    \/ Reload
    \/ Start
    \/ Tick
    \/ Pause
    \/ Reset
    \/ Toggle
    \/ Add
    \/ Delete
    \/ MoveUp
    \/ MoveDown
    \/ ResetAll
    \/ ClearSaved
    \/ Edit

Spec == Init /\ [][Next]_vars

\* ------------------------------------------------------------------------
\* Sessions over a slot that only this program has written: nothing stored,
\* or a snapshot saveRoundsToStorage produced
\* ------------------------------------------------------------------------
WrittenSlots ==
    { Slot("absent", <<>>),
      Slot("array", <<StoredRound(2, TRUE), StoredRound(1, FALSE)>>) }

InitWritten == \E slot \in WrittenSlots : InitFrom(slot)

SpecWritten == InitWritten /\ [][Next]_vars

\* ------------------------------------------------------------------------
\* Sessions in which the slot holds a snapshot and every setItem fails
\* ------------------------------------------------------------------------
InitFull ==
    InitFrom(Slot("full", <<StoredRound(2, TRUE), StoredRound(1, FALSE)>>))

SpecFull == InitFull /\ [][Next]_vars

\* ------------------------------------------------------------------------
\* One round with a countdown of LongMinutes:LongSeconds, so that a single
\* timer runs through every urgency tier
\* ------------------------------------------------------------------------
LongMinutes == 1
LongSeconds == 30

InitLong ==
    InitFrom(Slot("array", <<[null |-> FALSE, id |-> 1, timerMin |-> LongMinutes,
                              timerSec |-> LongSeconds, isCompleted |-> FALSE]>>))

EditLong == \E id \in AllIds, field \in {"min", "sec"} :
            \E str \in (IF field = "min" THEN {<<"0">>, NatToStr(LongMinutes)}
                        ELSE {<<"0">>, NatToStr(LongSeconds)}) :
               /\ Becomes(EditTimerInput(Begin, id, field, str))
               /\ UNCHANGED <<everLive, countdown>>

NextLong ==
    \/ Start
    \/ Tick
    \/ Pause
    \/ Reset
    \/ Toggle
    \/ EditLong

SpecLong == InitLong /\ [][NextLong]_vars

\* ------------------------------------------------------------------------
\* One round whose inputs are also given values with a minus sign: a
\* number input hands any typed number to its value property
\* ------------------------------------------------------------------------
SignedStrings == {<<"-", "1">>, <<"0">>, NatToStr(MaxSeconds)}

InitSigned == InitFrom(Slot("array", <<StoredRound(1, FALSE)>>))

EditSigned == \E id \in AllIds, field \in {"min", "sec"} :
              \E str \in (IF field = "min" THEN {<<"0">>, <<"-", "1">>}
                          ELSE SignedStrings) :
                 /\ Becomes(EditTimerInput(Begin, id, field, str))
                 /\ UNCHANGED <<everLive, countdown>>

NextSigned ==
    \/ Start
    \/ Tick
    \/ Pause
    \/ Reset
    \/ Toggle
    \/ EditSigned

SpecSigned == InitSigned /\ [][NextSigned]_vars

\* ------------------------------------------------------------------------
\* Two rounds and the handlers that touch timers, with fair delivery of the
\* callbacks: the browser calls a callback registered with setInterval
\* again and again for as long as its interval is not cleared
\* ------------------------------------------------------------------------
\* a tick of round id has been delivered: the step counts one more tick
\* for it (only the Tick action of a callback of that round does)
TickDelivered(id) ==
    /\ \E iv \in intervals : iv.row = id
    /\ id \in DOMAIN countdown
    /\ countdown' = [countdown EXCEPT ![id].k = @ + 1]

InitFair ==
    InitFrom(Slot("array", <<StoredRound(2, FALSE), StoredRound(1, FALSE)>>))

NextFair ==
    \/ Start
    \/ Tick
    \/ Pause
    \/ Reset
    \/ Toggle
    \/ Delete

SpecFair ==
    /\ InitFair
    /\ [][NextFair]_vars
    /\ \A id \in AllIds : WF_countdown(TickDelivered(id))

\* ------------------------------------------------------------------------
\* Properties
\* ------------------------------------------------------------------------
PendingTicks(id) == Cardinality({iv \in intervals : iv.row = id})

Running(id) == id \in DOMAIN timers /\ timers[id].isRunning

Paused(id) ==
    /\ id \in DOMAIN timers
    /\ ~timers[id].isRunning
    /\ timers[id].remainingSeconds > 0

\* C1: a round has exactly one pending tick callback while its timer has
\* isRunning, and none otherwise (no timer, paused, reset, expired, deleted).
C1_OneTickIffRunning ==
    \A id \in AllIds \cup {iv.row : iv \in intervals} :
        PendingTicks(id) = IF Running(id) THEN 1 ELSE 0

\* a round paused in mid-countdown with no tick pending, next to a running one
C1_Witness ==
    \E a, b \in AllIds :
        /\ Paused(a) /\ PendingTicks(a) = 0
        /\ Running(b) /\ PendingTicks(b) = 1

\* C2: no timer has remainingSeconds = 0 together with isRunning.
C2_ZeroNeverRunning ==
    \A id \in DOMAIN timers :
        ~(timers[id].remainingSeconds = 0 /\ timers[id].isRunning)

\* a tick has just brought a timer to zero and timerFinished stopped it
C2_Witness ==
    \E id \in DOMAIN timers :
        /\ timers[id].remainingSeconds = 0
        /\ ~timers[id].isRunning
        /\ out.sounds = 1

\* C3: a timer initialised from a duration D > 0 has remainingSeconds = D - k
\* after k ticks, whatever pauses, resumes and input edits came between, and
\* at k = D it is expired at 0.
C3_NoDrift ==
    \A id \in DOMAIN countdown :
        /\ id \in DOMAIN timers
        /\ countdown[id].k <= countdown[id].D
        /\ timers[id].remainingSeconds = countdown[id].D - countdown[id].k
        /\ countdown[id].k = countdown[id].D =>
              /\ ~timers[id].isRunning
              /\ RowOf(rows, id).text = LabelText("TIME!")
              /\ "finished" \in RowOf(rows, id).cls

\* the 1:30 timer paused after 30 ticks, its inputs edited since the start
C3_Witness ==
    \E id \in DOMAIN countdown :
        /\ countdown[id].D = (LongMinutes * SecondsPerMinute) + LongSeconds
        /\ countdown[id].k = LongSeconds
        /\ Paused(id)
        /\ GetTimerSeconds(RowOf(rows, id)) # countdown[id].D

\* what the rows hold that a snapshot is meant to carry
Carried(rs) ==
    [i \in 1..Len(rs) |->
        [id |-> rs[i].id, completed |-> rs[i].checked,
         minutes |-> OrZero(ParseInt(rs[i].min)),
         seconds |-> OrZero(ParseInt(rs[i].sec))]]

\* the rows of the page loaded from what saveRoundsToStorage writes now
ReloadedRows == PageLoad(SaveRoundsToStorage(Here).storage).rows

\* C4 (as claimed): with working storage, every round sequence, the empty one
\* included, comes back from save and load with the same length, order, ids,
\* completed flags and configured minutes/seconds.
C4_RoundTripAnyLength ==
    storage.kind # "denied" => Carried(ReloadedRows) = Carried(rows)

\* C4 (amended): the round trip holds for every sequence of at least one round.
C4_RoundTripNonEmpty ==
    (storage.kind # "denied" /\ Len(rows) > 0) => Carried(ReloadedRows) = Carried(rows)

\* a page loaded from a snapshot of two rounds, the one added last listed
\* first and completed
C4_Witness ==
    /\ out.loaded = "yes"
    /\ Len(rows) = MaxRows
    /\ rows[1].id = MaxRowId
    /\ rows[1].checked
    /\ Carried(ReloadedRows) = Carried(rows)

\* C5: when loadRoundsFromStorage reports no usable snapshot, nothing was
\* raised and the page shows exactly the default rounds.
C5_FailedLoadKeepsDefaults ==
    out.loaded = "no" => (rows = DefaultRows /\ ~out.raised)

SetMax(S) == CHOOSE x \in S : \A y \in S : y <= x

\* C6: the id addNewRound assigns next is above every id that has been live in
\* the session, live ids are pairwise distinct, and after a load it is the
\* snapshot's maximum id plus one.
C6_NextIdFresh ==
    /\ \A id \in everLive : id < nextRowId
    /\ \A i, j \in 1..Len(rows) : rows[i].id = rows[j].id => i = j
    /\ out.loaded = "yes" => nextRowId = SetMax(RowIds(rows)) + 1

\* the highest round was deleted and the round added after it got a new id
C6_Witness ==
    /\ everLive = 1..MaxRowId
    /\ Len(rows) = MaxRows
    /\ rows[Len(rows)].id = MaxRowId
    /\ (MaxRowId - 1) \notin RowIds(rows)

\* positions of the running timers with the least remaining time
UrgentPositions ==
    {i \in 1..Len(rows) :
        /\ Running(rows[i].id)
        /\ timers[rows[i].id].remainingSeconds > 0
        /\ \A j \in 1..Len(rows) :
              (Running(rows[j].id) /\ timers[rows[j].id].remainingSeconds > 0)
                 => timers[rows[i].id].remainingSeconds
                       <= timers[rows[j].id].remainingSeconds}

\* C7: among the running timers that share the least remaining time,
\* updateGlobalTimerDisplay reports the one listed first.
C7_TieGoesToFirstListed ==
    UrgentPositions # {} =>
        UpdateGlobalTimerDisplay(Here).globalDisplay.id
           = rows[CHOOSE i \in UrgentPositions : \A j \in UrgentPositions : i <= j].id

\* C8: the global display shows "No active timer" iff no timer is running
\* with time left, and otherwise the name and the remaining time of a running
\* timer with the least remaining time.
C8_GlobalDisplayCurrent ==
    LET run == {id \in DOMAIN timers :
                   timers[id].isRunning /\ timers[id].remainingSeconds > 0}
    IN  IF run = {} THEN globalDisplay.kind = "none"
        ELSE /\ globalDisplay.kind = "timer"
             /\ globalDisplay.id \in run
             /\ \A id \in run : timers[globalDisplay.id].remainingSeconds
                                   <= timers[id].remainingSeconds
             /\ (globalDisplay.mm * SecondsPerMinute) + globalDisplay.ss
                   = timers[globalDisplay.id].remainingSeconds

\* two timers running, the display on the one with less time left, which is
\* not the one with the lower id
C8_Witness ==
    \E a, b \in DOMAIN timers :
        /\ Running(a) /\ Running(b)
        /\ timers[a].remainingSeconds < timers[b].remainingSeconds
        /\ b < a
        /\ globalDisplay.kind = "timer"
        /\ globalDisplay.id = a

\* the tier the remaining time alone determines
TierOf(seconds) ==
    IF seconds > WarningMax THEN "normal"
    ELSE IF seconds > DangerMax THEN "warning"
    ELSE IF seconds > 0 THEN "danger"
    ELSE "expired"

\* C9: while a timer is running its display shows the tier of its
\* remainingSeconds, also right after a start or a resume, and after expiry it
\* shows expired.
C9_TierFollowsRemaining ==
    \A i \in 1..Len(rows) :
        LET id == rows[i].id
        IN  /\ Running(id) =>
                 ShownTier(rows[i].cls) = TierOf(timers[id].remainingSeconds)
            /\ (id \in DOMAIN timers /\ rows[i].text = LabelText("TIME!")) =>
                 ShownTier(rows[i].cls) = "expired"

FullyCompleted(rs) == Len(rs) > 0 /\ CheckedCount(rs) = Len(rs)

\* C10: a handler of the running page (any step but the page load) celebrates
\* iff it takes the rounds from not fully completed to fully completed.
C10_CelebratesOnTransitionOnly ==
    [][out'.loaded = "n/a" =>
          ((out'.celebrations > 0)
              <=> (~FullyCompleted(rows) /\ FullyCompleted(rows')))]_vars

\* ------------------------------------------------------------------------
\* C11: the displayed progress is the pair (number of completed rounds,
\* number of rounds) of the current round sequence, and the bar's percentage
\* is completed * 100 / total, or 0 when there is no round.  Start, tick,
\* pause, reset, move and input edits change neither count, so the equality
\* established by startup, add, delete, toggle and reset-all holds in every
\* state.
\* ------------------------------------------------------------------------
C11_ProgressMatchesRounds ==
    /\ progress.checked = CheckedCount(rows)
    /\ progress.total = Len(rows)
    /\ IF Len(rows) = 0
       THEN progress.num = 0
       ELSE progress.num * Len(rows) = CheckedCount(rows) * 100 * progress.den

\* one of two rounds completed by a handler: the bar stands at 50%
C11_Witness ==
    /\ out.loaded = "n/a"
    /\ Len(rows) = 2
    /\ CheckedCount(rows) = 1
    /\ progress.checked = 1
    /\ progress.num * 2 = 100 * progress.den

\* ------------------------------------------------------------------------
\* C12: with working storage, every handler step that changes the round
\* sequence, a completed flag or a round's configured minutes or seconds
\* leaves in the slot the snapshot of the rounds as they are after the step.
\* Typing into a row's minutes or seconds input runs no handler, so the
\* step that changes the configured time writes nothing.
\* ------------------------------------------------------------------------
C12_SnapshotFollowsRounds ==
    [][(/\ out'.loaded = "n/a"
        /\ Writable(storage)
        /\ Carried(rows') # Carried(rows))
       => (/\ storage'.kind = "array"
           /\ storage'.items = [i \in 1..Len(rows') |-> RoundOf(rows'[i])])]_vars

\* ------------------------------------------------------------------------
\* C13: moveRowUp on the first round and moveRowDown on the last round
\* change nothing; any other move exchanges the round with its neighbour
\* and leaves every round's content, the timers, the pending ticks and the
\* id counter as they were; moveRowUp(id) followed by moveRowDown(id) on a
\* round that is not first gives back the original order.
\* ------------------------------------------------------------------------
ExchangedAt(rs, k) ==
    [j \in 1..Len(rs) |-> IF j = k THEN rs[k + 1]
                          ELSE IF j = k + 1 THEN rs[k] ELSE rs[j]]

SameTimers(s) ==
    /\ s.timers = timers
    /\ s.intervals = intervals
    /\ s.nextRowId = nextRowId
    /\ ~s.out.raised

C13_MovesSwapNeighbours ==
    \A id \in RowIds(rows) :
        LET i  == RowIndex(rows, id)
            up == MoveRowUp(Begin, id)
            dn == MoveRowDown(Begin, id)
        IN  /\ IF i = 1 THEN up = Begin ELSE up.rows = ExchangedAt(rows, i - 1)
            /\ IF i = Len(rows) THEN dn = Begin ELSE dn.rows = ExchangedAt(rows, i)
            /\ SameTimers(up)
            /\ SameTimers(dn)
            /\ i > 1 => MoveRowDown(up, id).rows = rows

\* the round added last stands first: it was moved up by a handler
C13_Witness ==
    /\ out.loaded = "n/a"
    /\ Len(rows) = 2
    /\ rows[1].id = MaxRowId
    /\ rows[2].id < MaxRowId
    /\ storage.kind = "array"
    /\ Len(storage.items) = 2
    /\ storage.items[1].id = MaxRowId

\* ------------------------------------------------------------------------
\* C14: addNewRound with an empty game name or an empty prompt is rejected
\* and changes nothing: the round sequence, the id counter, the timers,
\* the pending ticks and the stored snapshot stay as they were.
\* ------------------------------------------------------------------------
C14_RejectedAddChangesNothing ==
    \A hasName, hasPrompt \in BOOLEAN :
        \A m \in {<<>>, <<"0">>}, sc \in FormStrings :
            LET a == AddNewRound(Begin, hasName, hasPrompt, m, sc)
            IN  (~hasName \/ ~hasPrompt)
                => /\ a.rows = rows
                   /\ a.nextRowId = nextRowId
                   /\ a.timers = timers
                   /\ a.intervals = intervals
                   /\ a.storage = storage
                   /\ a.progress = progress
                   /\ ~a.out.raised

\* a page where a save would be visible: one round, one running timer,
\* a writable slot that does not hold the snapshot of the present rows
C14_Witness ==
    /\ out.loaded = "n/a"
    /\ Len(rows) = 1
    /\ nextRowId <= MaxRowId
    /\ \E id \in RowIds(rows) : Running(id)
    /\ Writable(storage)
    /\ SaveRoundsToStorage(Here).storage # storage

\* ------------------------------------------------------------------------
\* C15: when setItem fails, each saving handler (add, delete, move up, move
\* down, toggle, reset-all) raises nothing, has on the rounds, the flags,
\* the timers, the pending ticks and the displays the effect it has with
\* working storage, and leaves the slot as it was.
\* ------------------------------------------------------------------------
SameInMemory(a, b) ==
    /\ a.rows = b.rows
    /\ a.timers = b.timers
    /\ a.intervals = b.intervals
    /\ a.nextRowId = b.nextRowId
    /\ a.progress = b.progress
    /\ a.globalDisplay = b.globalDisplay
    /\ a.out = b.out

FailedSaveHarmless(a, b) ==
    /\ ~a.out.raised
    /\ a.storage = storage
    /\ b.storage = Slot("array", [i \in 1..Len(b.rows) |-> RoundOf(b.rows[i])])
    /\ SameInMemory(a, b)

C15_FailedWriteKeepsEffect ==
    ~Writable(storage) =>
        LET F == Begin
            W == [Begin EXCEPT !.storage = Slot("array", storage.items)]
        IN  /\ \A m \in {<<>>, <<"0">>}, sc \in FormStrings :
                  FailedSaveHarmless(AddNewRound(F, TRUE, TRUE, m, sc),
                                     AddNewRound(W, TRUE, TRUE, m, sc))
            /\ \A id \in RowIds(rows) :
                  /\ FailedSaveHarmless(DeleteRow(F, id, TRUE), DeleteRow(W, id, TRUE))
                  /\ FailedSaveHarmless(ToggleDone(F, id), ToggleDone(W, id))
                  /\ RowIndex(rows, id) > 1
                       => FailedSaveHarmless(MoveRowUp(F, id), MoveRowUp(W, id))
                  /\ RowIndex(rows, id) < Len(rows)
                       => FailedSaveHarmless(MoveRowDown(F, id), MoveRowDown(W, id))
            /\ FailedSaveHarmless(ResetAllRounds(F, TRUE), ResetAllRounds(W, TRUE))

\* the slot still holds the two rounds it held at page load although a
\* round has been added in memory since
C15_Witness ==
    /\ storage.kind = "full"
    /\ Len(storage.items) = 2
    /\ out.loaded = "n/a"
    /\ \E i \in 1..Len(rows) : rows[i].id = MaxRowId
    /\ ~out.raised

\* ------------------------------------------------------------------------
\* C16: for an id that has no round in the sequence (never assigned, or
\* deleted), startTimer, pauseTimer, resetTimer, toggleDone, moveRowUp,
\* moveRowDown and deleteRow raise nothing and leave the round sequence,
\* the completed flags, the timers and the pending ticks as they were.
\* ------------------------------------------------------------------------
StaleNoOp(s) ==
    /\ ~s.out.raised
    /\ s.rows = rows
    /\ s.timers = timers
    /\ s.intervals = intervals

C16_StaleIdIsNoOp ==
    \A id \in AllIds \ RowIds(rows) :
        /\ StaleNoOp(StartTimer(Begin, id))
        /\ StaleNoOp(PauseTimer(Begin, id))
        /\ StaleNoOp(ResetTimer(Begin, id))
        /\ StaleNoOp(ToggleDone(Begin, id))
        /\ StaleNoOp(MoveRowUp(Begin, id))
        /\ StaleNoOp(MoveRowDown(Begin, id))
        /\ StaleNoOp(DeleteRow(Begin, id, TRUE))
        /\ StaleNoOp(DeleteRow(Begin, id, FALSE))

\* a round was deleted and another one never assigned, while the timer of
\* a remaining round is running
C16_Witness ==
    /\ out.loaded = "n/a"
    /\ \E id \in everLive : id \notin RowIds(rows)
    /\ \E id \in AllIds : id \notin everLive
    /\ \E id \in RowIds(rows) : Running(id)

\* ------------------------------------------------------------------------
\* C17: every entry of timers belongs to a round of the sequence; a
\* confirmed deleteRow(id) removes the round id, its timer entry and its
\* pending tick and keeps every other round, in order, with its timer and
\* its tick; a declined deleteRow changes nothing at all.
\* ------------------------------------------------------------------------
Without(rs, id) == SelectSeq(rs, LAMBDA r : r.id # id)

C17_DeleteRemovesRoundAndTimer ==
    /\ DOMAIN timers \subseteq RowIds(rows)
    /\ \A id \in RowIds(rows) :
          LET d == DeleteRow(Begin, id, TRUE)
          IN  /\ d.rows = Without(rows, id)
              /\ DOMAIN d.timers = DOMAIN timers \ {id}
              /\ \A k \in DOMAIN d.timers : d.timers[k] = timers[k]
              /\ d.intervals = {iv \in intervals : iv.row # id}
              /\ d.nextRowId = nextRowId
              /\ DeleteRow(Begin, id, FALSE) = Begin

\* a round has been deleted; the remaining round is still counting down
\* and holds the only entry of timers
C17_Witness ==
    /\ out.loaded = "n/a"
    /\ Len(rows) = 1
    /\ Running(rows[1].id)
    /\ PendingTicks(rows[1].id) = 1
    /\ DOMAIN timers = {rows[1].id}
    /\ everLive # RowIds(rows)

\* ------------------------------------------------------------------------
\* C18: checking a round's box sets its completed flag and leaves its timer
\* not running, with no pending tick and with remainingSeconds as it was;
\* unchecking clears the flag and changes no timer; in both cases every
\* other round, its timer and its pending tick stay as they were.
\* ------------------------------------------------------------------------
C18_ToggleDonePausesOnly ==
    \A id \in RowIds(rows) :
        LET i == RowIndex(rows, id)
            t == ToggleDone(Begin, id)
        IN  /\ Len(t.rows) = Len(rows)
            /\ t.rows[i].checked = ~rows[i].checked
            /\ t.rows[i].id = id
            /\ t.rows[i].min = rows[i].min
            /\ t.rows[i].sec = rows[i].sec
            /\ \A j \in 1..Len(rows) : j # i => t.rows[j] = rows[j]
            /\ DOMAIN t.timers = DOMAIN timers
            /\ \A k \in DOMAIN timers : k # id => t.timers[k] = timers[k]
            /\ {iv \in t.intervals : iv.row # id} = {iv \in intervals : iv.row # id}
            /\ IF t.rows[i].checked
               THEN /\ {iv \in t.intervals : iv.row = id} = {}
                    /\ id \in DOMAIN timers
                         => /\ ~t.timers[id].isRunning
                            /\ t.timers[id].remainingSeconds
                                 = timers[id].remainingSeconds
               ELSE /\ t.timers = timers
                    /\ t.intervals = intervals
            /\ ~t.out.raised

\* a completed round whose countdown was stopped part-way, next to a round
\* that is still counting down
C18_Witness ==
    /\ out.loaded = "n/a"
    /\ \E i, j \in 1..Len(rows) :
          /\ rows[i].checked
          /\ Paused(rows[i].id)
          /\ PendingTicks(rows[i].id) = 0
          /\ ~rows[j].checked
          /\ Running(rows[j].id)

\* ------------------------------------------------------------------------
\* C19: an addNewRound that passes validation appends exactly one round at
\* the end, not completed, configured with the minutes and seconds entered
\* in the form (an empty field counting as 0), under the id the counter
\* held, with no timer entry; the rounds already present keep their order,
\* ids, flags and durations, and the timers and pending ticks stay as they
\* were.
\* ------------------------------------------------------------------------
C19_AddAppendsOneRound ==
    \A m \in {<<>>, <<"0">>}, sc \in FormStrings :
        LET a == AddNewRound(Begin, TRUE, TRUE, m, sc)
            n == Len(rows)
        IN  /\ Len(a.rows) = n + 1
            /\ SubSeq(a.rows, 1, n) = rows
            /\ a.rows[n + 1].id = nextRowId
            /\ a.rows[n + 1].id \notin RowIds(rows)
            /\ ~a.rows[n + 1].checked
            /\ GetTimerSeconds(a.rows[n + 1])
                 = OrZero(ParseInt(m)) * SecondsPerMinute + OrZero(ParseInt(sc))
            /\ a.rows[n + 1].id \notin DOMAIN a.timers
            /\ a.timers = timers
            /\ a.intervals = intervals
            /\ a.nextRowId = nextRowId + 1
            /\ ~a.out.raised

\* a round added with a non-zero time stands last, without a timer entry,
\* after a round whose timer is running
C19_Witness ==
    /\ out.loaded = "n/a"
    /\ Len(rows) = 2
    /\ rows[2].id = MaxRowId
    /\ nextRowId = MaxRowId + 1
    /\ ~rows[2].checked
    /\ GetTimerSeconds(rows[2]) = MaxSeconds
    /\ DOMAIN timers = {rows[1].id}
    /\ Running(rows[1].id)
    /\ storage.kind = "array"
    /\ Len(storage.items) = 2
    /\ storage.items[2].id = MaxRowId

\* ------------------------------------------------------------------------
\* C20: a page reload, at any moment, leaves no timer entry (so no round
\* is running or has remainingSeconds > 0) and no pending tick, and the
\* first startTimer of a restored round counts from the minutes and
\* seconds configured for it: those of its snapshot entry, which for a
\* snapshot written now are the round's configured inputs, not the time
\* its countdown has left.
\* ------------------------------------------------------------------------
StartsFrom(p, id, D) ==
    LET st == StartTimer(p, id)
    IN  /\ id \in DOMAIN st.timers
        /\ st.timers[id].remainingSeconds = D
        /\ st.timers[id].isRunning <=> D > 0

C20_ReloadCarriesNoCountdown ==
    LET p == PageLoad(storage)
        q == PageLoad(SaveRoundsToStorage(Here).storage)
    IN  /\ p.timers = NoTimers
        /\ p.intervals = {}
        /\ \A id \in RowIds(p.rows) :
              StartsFrom(p, id, GetTimerSeconds(RowOf(p.rows, id)))
        /\ (p.out.loaded = "yes")
             => \A i \in 1..Len(storage.items) :
                  StartsFrom(p, storage.items[i].id,
                             storage.items[i].timerMin * SecondsPerMinute
                               + storage.items[i].timerSec)
        /\ (Writable(storage) /\ Len(rows) > 0)
             => /\ q.timers = NoTimers
                /\ q.intervals = {}
                /\ \A id \in RowIds(rows) :
                      StartsFrom(q, id, GetTimerSeconds(RowOf(rows, id)))

\* the moment of a reload: one countdown running part-way, another one
\* paused part-way, the snapshot in the slot being that of the present rows
C20_Witness ==
    /\ storage = SaveRoundsToStorage(Here).storage
    /\ storage.kind = "array"
    /\ \E i, j \in RowIds(rows) :
          /\ Running(i)
          /\ timers[i].remainingSeconds < GetTimerSeconds(RowOf(rows, i))
          /\ Paused(j)
          /\ timers[j].remainingSeconds < GetTimerSeconds(RowOf(rows, j))

\* ------------------------------------------------------------------------
\* C21: startTimer on a round that has no timer entry or a stopped timer
\* at 0, and whose inputs compute to 0 seconds, shows "Set time!", raises
\* nothing and starts nothing: the round's timer is not running and stands
\* at 0, no tick is scheduled, every other timer and the global timer
\* display are as before.
\* ------------------------------------------------------------------------
IdleAtZero(id) ==
    id \notin DOMAIN timers
      \/ (~timers[id].isRunning /\ timers[id].remainingSeconds = 0)

C21_ZeroDurationDoesNotStart ==
    \A id \in RowIds(rows) :
        (IdleAtZero(id) /\ GetTimerSeconds(RowOf(rows, id)) = 0)
        => LET i  == RowIndex(rows, id)
               st == StartTimer(Begin, id)
           IN  /\ ~st.out.raised
               /\ st.rows[i].text = LabelText("Set time!")
               /\ ~st.timers[id].isRunning
               /\ st.timers[id].remainingSeconds = 0
               /\ st.timers[id].intervalId = 0
               /\ st.intervals = intervals
               /\ \A k \in DOMAIN timers : k # id => st.timers[k] = timers[k]
               /\ st.globalDisplay = globalDisplay

\* a round configured 0:00 shows "Set time!" while the other round's
\* countdown is shown by the global display
C21_Witness ==
    /\ out.loaded = "n/a"
    /\ \E i, j \in 1..Len(rows) :
          /\ rows[i].text = LabelText("Set time!")
          /\ GetTimerSeconds(rows[i]) = 0
          /\ rows[i].id \in DOMAIN timers
          /\ IdleAtZero(rows[i].id)
          /\ Running(rows[j].id)
    /\ globalDisplay # InitialGlobalDisplay

\* ------------------------------------------------------------------------
\* C22: the remainingSeconds of every timer is an integer >= 0, whatever
\* the minutes and seconds inputs hold when startTimer reads them.
\* startTimer stores what getTimerSeconds computes before it tests it, so
\* an input with a minus sign leaves a negative remainingSeconds behind.
\* ------------------------------------------------------------------------
C22_RemainingNeverNegative ==
    \A id \in DOMAIN timers : timers[id].remainingSeconds >= 0

\* ------------------------------------------------------------------------
\* C23: a handler plays the timer sound at most once, and only for a round
\* whose running timer stood at 1 and now stands at 0, stopped, with no
\* pending tick and "TIME!" on its display; every tick of a timer that
\* stands at 1 plays it.  Pause, reset, delete, toggle and the ticks that
\* leave time on the clock therefore play nothing.
\* ------------------------------------------------------------------------
ExpiresInStep(id) ==
    /\ id \in DOMAIN timers
    /\ timers[id].isRunning
    /\ timers[id].remainingSeconds = 1
    /\ id \in DOMAIN timers'
    /\ timers'[id].remainingSeconds = 0
    /\ ~timers'[id].isRunning
    /\ {iv \in intervals' : iv.row = id} = {}
    /\ id \in RowIds(rows')
    /\ RowOf(rows', id).text = LabelText("TIME!")

C23_SoundOncePerExpiry ==
    [][/\ out'.sounds \in {0, 1}
       /\ out'.sounds = 1 => \E id \in AllIds : ExpiresInStep(id)
       /\ \A iv \in intervals :
             (/\ timers[iv.row].remainingSeconds = 1
              /\ Becomes(TickCallback(Begin, iv.row)))
             => (out'.sounds = 1 /\ ExpiresInStep(iv.row))]_vars

\* the sound has just been played for a round that shows "TIME!"
C23_Witness ==
    /\ out.sounds = 1
    /\ \E i \in 1..Len(rows) :
          /\ rows[i].text = LabelText("TIME!")
          /\ rows[i].id \in DOMAIN timers
          /\ timers[rows[i].id].remainingSeconds = 0
          /\ ~Running(rows[i].id)
          /\ PendingTicks(rows[i].id) = 0

\* ------------------------------------------------------------------------
\* C24: resetTimer on a round of the sequence, whatever the state of its
\* timer (none, running, paused, expired), leaves the timer at 0, not
\* running, with no pending tick, and every other timer and tick as they
\* were; the following startTimer of the round counts from the duration
\* its inputs configure at that moment.
\* ------------------------------------------------------------------------
C24_ResetThenStartIsFull ==
    \A id \in RowIds(rows) :
        LET r  == ResetTimer(Begin, id)
            st == StartTimer(r, id)
            D  == GetTimerSeconds(RowOf(rows, id))
        IN  /\ ~r.out.raised
            /\ r.timers[id] = [intervalId |-> 0, remainingSeconds |-> 0,
                               isRunning |-> FALSE]
            /\ {iv \in r.intervals : iv.row = id} = {}
            /\ {iv \in r.intervals : iv.row # id} = {iv \in intervals : iv.row # id}
            /\ DOMAIN r.timers = DOMAIN timers \cup {id}
            /\ \A k \in DOMAIN timers : k # id => r.timers[k] = timers[k]
            /\ st.timers[id].remainingSeconds = D
            /\ st.timers[id].isRunning <=> D > 0

\* a round that was reset: its entry at 0, its display back at 00:00, its
\* inputs still configuring a duration, while the other round counts down
C24_Witness ==
    /\ out.loaded = "n/a"
    /\ \E i \in 1..Len(rows) :
          /\ rows[i].id \in DOMAIN timers
          /\ timers[rows[i].id].remainingSeconds = 0
          /\ ~Running(rows[i].id)
          /\ PendingTicks(rows[i].id) = 0
          /\ rows[i].text = ClockText(0)
          /\ GetTimerSeconds(rows[i]) = MaxSeconds
          /\ \E j \in 1..Len(rows) : Running(rows[j].id)

\* ------------------------------------------------------------------------
\* C25: when pending tick callbacks keep being delivered, a timer that is
\* running at some moment is not running at some later moment: either the
\* ticks bring it to 0, where it expires, or a pause, a reset, the round's
\* checkbox or the round's deletion stops it before.
\* ------------------------------------------------------------------------
C25_RunningEventuallyStops ==
    \A id \in AllIds : Running(id) ~> ~Running(id)

\* a timer brought to expiry by its ticks alone: as many ticks as seconds
C25_Witness ==
    \E id \in DOMAIN countdown :
        /\ countdown[id].D = MaxSeconds
        /\ countdown[id].k = MaxSeconds
        /\ id \in DOMAIN timers
        /\ timers[id].remainingSeconds = 0
        /\ ~timers[id].isRunning
        /\ PendingTicks(id) = 0
        /\ out.sounds = 1

\* ------------------------------------------------------------------------
\* C26: once clearSavedRounds has been confirmed, a page load shows the
\* default rounds, also when one more handler has run between the clear and
\* the load; a declined clearSavedRounds leaves the slot as it was.  Every
\* saving handler writes the snapshot again, so a toggle, a move, a delete,
\* an add or a reset-all after the clear brings the saved rounds back.
\* ------------------------------------------------------------------------
LoadsDefaults(s) == PageLoad(s.storage).rows = DefaultRows

C26_ClearedLoadsDefaults ==
    storage.kind # "denied" =>
        LET c == ClearSavedRounds(Begin, TRUE)
        IN  /\ ClearSavedRounds(Begin, FALSE).storage = storage
            /\ LoadsDefaults(c)
            /\ \A id \in RowIds(rows) :
                  /\ LoadsDefaults(StartTimer(c, id))
                  /\ LoadsDefaults(PauseTimer(c, id))
                  /\ LoadsDefaults(ResetTimer(c, id))
                  /\ LoadsDefaults(ToggleDone(c, id))
                  /\ LoadsDefaults(MoveRowUp(c, id))
                  /\ LoadsDefaults(MoveRowDown(c, id))
                  /\ LoadsDefaults(DeleteRow(c, id, TRUE))
            /\ LoadsDefaults(AddNewRound(c, TRUE, TRUE, <<"0">>, <<"0">>))
            /\ LoadsDefaults(ResetAllRounds(c, TRUE))

\* ------------------------------------------------------------------------
\* C27: a confirmed resetAllRounds leaves every round not completed, with
\* a timer at 0 that is not running, and no pending tick at all; the
\* rounds keep their order, ids and configured minutes and seconds; with
\* working storage the slot then holds the snapshot of that state.  A
\* declined resetAllRounds changes nothing.
\* ------------------------------------------------------------------------
C27_ResetAllClearsEverything ==
    LET a == ResetAllRounds(Begin, TRUE)
    IN  /\ ~a.out.raised
        /\ Len(a.rows) = Len(rows)
        /\ \A i \in 1..Len(rows) :
              /\ a.rows[i].id = rows[i].id
              /\ a.rows[i].min = rows[i].min
              /\ a.rows[i].sec = rows[i].sec
              /\ ~a.rows[i].checked
        /\ DOMAIN a.timers = RowIds(rows)
        /\ \A id \in RowIds(rows) :
              a.timers[id] = [intervalId |-> 0, remainingSeconds |-> 0,
                              isRunning |-> FALSE]
        /\ a.intervals = {}
        /\ a.nextRowId = nextRowId
        /\ Writable(storage)
             => a.storage = Slot("array",
                                 [i \in 1..Len(rows) |->
                                    [null |-> FALSE, id |-> rows[i].id,
                                     timerMin |-> OrZero(ParseInt(rows[i].min)),
                                     timerSec |-> OrZero(ParseInt(rows[i].sec)),
                                     isCompleted |-> FALSE]])
        /\ ResetAllRounds(Begin, FALSE) = Begin

\* two rounds, the higher id listed first, both with a timer entry at 0
\* and 00:00 on the display, nothing checked, no tick pending, and the
\* slot holding the snapshot of exactly that
C27_Witness ==
    /\ out.loaded = "n/a"
    /\ Len(rows) = 2
    /\ DOMAIN timers = RowIds(rows)
    /\ \A i \in 1..2 :
          /\ ~rows[i].checked
          /\ timers[rows[i].id].remainingSeconds = 0
          /\ ~timers[rows[i].id].isRunning
          /\ rows[i].text = ClockText(0)
    /\ intervals = {}
    /\ storage = SaveRoundsToStorage(Here).storage
    /\ storage.kind = "array"
    /\ rows[1].id > rows[2].id

\* ------------------------------------------------------------------------
\* C28: no round whose box is checked has a running timer.  toggleDone
\* pauses the timer when the box is checked, but startTimer does not look
\* at the box, so the countdown of a completed round can be started again.
\* ------------------------------------------------------------------------
C28_CompletedNeverRunning ==
    \A i \in 1..Len(rows) : rows[i].checked => ~Running(rows[i].id)

\* C28, amended: every step that turns a round into a completed one leaves
\* that round without a running timer and without a pending tick; the
\* round may be started again afterwards.
CompletedIds(rs) == {rs[i].id : i \in {j \in 1..Len(rs) : rs[j].checked}}

C28_CheckingStopsCountdown ==
    [][\A id \in CompletedIds(rows') \ CompletedIds(rows) :
          /\ id \in DOMAIN timers' => ~timers'[id].isRunning
          /\ {iv \in intervals' : iv.row = id} = {}]_vars

\* the only round was checked while it was counting down: it is completed
\* and its timer stands paused after one tick
C28_Witness ==
    /\ out.loaded = "n/a"
    /\ Len(rows) = 1
    /\ rows[1].checked
    /\ Paused(rows[1].id)
    /\ rows[1].id \in DOMAIN countdown
    /\ countdown[rows[1].id].k = 1
    /\ PendingTicks(rows[1].id) = 0
    /\ progress.allDone

====
